---- MODULE Spec2Model ----
(***************************************************************************)
(* A model of spectral/source/spectrum.hpp: the wavelength resampler       *)
(* (SampledSpectrum::averageSamples, SampledSpectrum::fromSamples), the    *)
(* lazily built colour-matching singletons (X, Y, Z, yIntegral) and the    *)
(* tristimulus / RGB conversion (toXYZ, toRGB).                            *)
(*                                                                         *)
(* A C++ float is modelled by an exact rational <<n, d>> in lowest terms   *)
(* with d > 0, extended by the three IEEE special values a division by     *)
(* zero produces: <<1, 0>> is +Inf, <<-1, 0>> is -Inf and <<0, 0>> is NaN. *)
(* Rounding to 24 bits and overflow are not modelled.                      *)
(***************************************************************************)
EXTENDS Integers, Sequences, FiniteSets

VARIABLES
    ndebug,   \* TRUE when the build defines NDEBUG (assert() compiles to nothing)
    call,     \* the resampler call under way or last made: its function and arguments
    avg,      \* averageSamples' frame: position, cursor i, result, reads, trapezoids
    fs,       \* what the last fromSamples call produced
    cie,      \* the CIE table: wavelengths and the x, y, z columns
    cache,    \* the four function-local statics: initialised flag, value, initialiser runs
    operand,  \* the spectra the converter is applied to: s1, s2 and a*s1 + b*s2
    last,     \* the last colour call: its name, its operand and what it returned
    made      \* the number of colour calls made so far

colourVars == <<cie, cache, operand, last, made>>
vars == <<ndebug, call, avg, fs, cie, cache, operand, last, made>>

(***************************************************************************)
(* float arithmetic                                                        *)
(***************************************************************************)
Sign(n) == IF n > 0 THEN 1 ELSE IF n < 0 THEN -1 ELSE 0

Abs(n) == IF n < 0 THEN -n ELSE n

RECURSIVE GCD(_, _)
GCD(a, b) == IF b = 0 THEN a ELSE GCD(b, a % b)

\* <<n, d>> in lowest terms; a zero denominator keeps only the sign
Norm(n, d) ==
    IF d = 0 THEN <<Sign(n), 0>>
    ELSE LET g == GCD(Abs(n), Abs(d))
         IN  <<Sign(d) * (n \div g), Abs(d) \div g>>

R(n) == <<n, 1>>

NaN == <<0, 0>>

IsFinite(a) == a[2] # 0

fneg(a) == <<-a[1], a[2]>>

\* the sum of two values; the finite case cancels common factors before it multiplies
sum(a, b) ==
    IF a = NaN \/ b = NaN THEN NaN
    ELSE IF a[2] = 0 /\ b[2] = 0 THEN (IF a = b THEN a ELSE NaN)
    ELSE IF a[2] = 0 THEN a
    ELSE IF b[2] = 0 THEN b
    ELSE LET g == GCD(a[2], b[2])
         IN  Norm(a[1] * (b[2] \div g) + b[1] * (a[2] \div g), (a[2] \div g) * b[2])

product(a, b) ==
    IF a[2] = 0 \/ b[2] = 0 THEN <<Sign(a[1]) * Sign(b[1]), 0>>
    ELSE LET g1 == GCD(Abs(a[1]), b[2])
             g2 == GCD(Abs(b[1]), a[2])
         IN  Norm((a[1] \div g1) * (b[1] \div g2), (a[2] \div g2) * (b[2] \div g1))

quotient(a, b) ==
    IF a = NaN \/ b = NaN THEN NaN
    ELSE IF b[1] = 0 THEN (IF b[2] = 0 THEN NaN ELSE <<Sign(a[1]), 0>>)
    ELSE IF b[2] = 0 THEN (IF a[2] = 0 THEN NaN ELSE R(0))
    ELSE product(a, <<Sign(b[1]) * b[2], Abs(b[1])>>)

\* the one element of a singleton set; its uses evaluate a value once and name it
the(S) == CHOOSE x \in S : TRUE

\* the operators: each operand is evaluated once, then combined
fadd(a, b) == the({sum(x, y) : x \in {a}, y \in {b}})

fsub(a, b) == the({sum(x, fneg(y)) : x \in {a}, y \in {b}})

fmul(a, b) == the({product(x, y) : x \in {a}, y \in {b}})

fdiv(a, b) == the({quotient(x, y) : x \in {a}, y \in {b}})

flt(a, b) ==
    IF a = NaN \/ b = NaN THEN FALSE
    ELSE IF a[2] = 0 \/ b[2] = 0
         THEN a # b /\ (a = <<-1, 0>> \/ b = <<1, 0>>)
    ELSE a[1] * b[2] < b[1] * a[2]

fgt(a, b) == flt(b, a)

fle(a, b) == a # NaN /\ b # NaN /\ ~flt(b, a)

fge(a, b) == fle(b, a)

\* std::max(a, b) is (a < b) ? b : a and std::min(a, b) is (b < a) ? b : a
fmax(a, b) == IF flt(a, b) THEN b ELSE a

fmin(a, b) == IF flt(b, a) THEN b ELSE a

(***************************************************************************)
(* constants of the program                                                *)
(***************************************************************************)
WavelengthBegin == 400

WavelengthEnd == 700

SpectralSampleCount == 60

SampleCount == SpectralSampleCount

\* a C array read at a zero-based index
at(arr, i) == arr[i + 1]

(***************************************************************************)
(* SampledSpectrum::averageSamples                                         *)
(***************************************************************************)
NoFrame ==
    [pc |-> "idle", i |-> 0, result |-> R(0), wreads |-> {}, vreads |-> {},
     traps |-> <<>>]

avgEnterMissingRightClamp(w, v, count, lBegin, lEnd, nd) ==
    IF count = 0 /\ ~nd THEN [NoFrame EXCEPT !.pc = "assert"]
    ELSE IF count = 0 THEN [NoFrame EXCEPT !.pc = "oob", !.wreads = {0}]
    ELSE IF count = 1
         THEN [NoFrame EXCEPT !.pc = "done", !.result = at(v, 0), !.vreads = {0}]
    ELSE IF fle(lEnd, at(w, 0))
         THEN [NoFrame EXCEPT !.pc = "done", !.result = at(v, 0),
                              !.wreads = {0}, !.vreads = {0}]
    ELSE [NoFrame EXCEPT !.pc = "skip", !.wreads = {0, count - 1}]

\* lines 86-105: the assertion, the three early returns, the cursor at 0
avgEnter(w, v, count, lBegin, lEnd, nd) ==
    IF count = 0 /\ ~nd THEN [NoFrame EXCEPT !.pc = "assert"]
    ELSE IF count = 0 THEN [NoFrame EXCEPT !.pc = "oob", !.wreads = {0}]
    ELSE IF count = 1
         THEN [NoFrame EXCEPT !.pc = "done", !.result = at(v, 0), !.vreads = {0}]
    ELSE IF fle(lEnd, at(w, 0))
         THEN [NoFrame EXCEPT !.pc = "done", !.result = at(v, 0),
                              !.wreads = {0}, !.vreads = {0}]
    ELSE IF fge(lBegin, at(w, count - 1))
         THEN [NoFrame EXCEPT !.pc = "done", !.result = at(v, count - 1),
                              !.wreads = {0, count - 1}, !.vreads = {count - 1}]
    ELSE [NoFrame EXCEPT !.pc = "skip", !.wreads = {0, count - 1}]

\* lines 111-114: the lambda
interpolate(w, v, l, i) ==
    LET t == fdiv(fsub(l, at(w, i)), fsub(at(w, i + 1), at(w, i)))
    IN  fadd(fmul(at(v, i), fsub(R(1), t)), fmul(at(v, i + 1), t))

\* lines 106-109: one test of the while loop and, when it holds, its body
skipStep(w, count, lBegin, st) ==
    IF st.i + 1 > count - 1
    THEN [st EXCEPT !.pc = "oob", !.wreads = @ \cup {st.i + 1}]
    ELSE IF fgt(lBegin, at(w, st.i + 1))
         THEN [st EXCEPT !.i = @ + 1, !.wreads = @ \cup {st.i + 1}]
    ELSE [st EXCEPT !.pc = "integrate", !.wreads = @ \cup {st.i + 1}]

\* line 123 and the return
avgFinish(lBegin, lEnd, st) ==
    [st EXCEPT !.pc = "done",
               !.result = fmul(@, fdiv(R(1), fsub(lEnd, lBegin)))]

integrateStepNoMax(w, v, count, lBegin, lEnd, st) ==
    IF ~(st.i + 1 < count) THEN avgFinish(lBegin, lEnd, st)
    ELSE IF ~fge(lEnd, at(w, st.i))
         THEN avgFinish(lBegin, lEnd, [st EXCEPT !.wreads = @ \cup {st.i}])
    ELSE LET l0 == at(w, st.i)
             l1 == fmin(lEnd, at(w, st.i + 1))
             area == fmul(fmul(<<1, 2>>,
                               fadd(interpolate(w, v, l0, st.i),
                                    interpolate(w, v, l1, st.i))),
                          fsub(l1, l0))
         IN  [st EXCEPT !.i = @ + 1,
                        !.result = fadd(@, area),
                        !.wreads = @ \cup {st.i, st.i + 1},
                        !.vreads = @ \cup {st.i, st.i + 1},
                        !.traps = Append(@, [seg |-> st.i, l0 |-> l0, l1 |-> l1])]

\* lines 116-121: one test of the for loop and, when it holds, its body and ++i
integrateStep(w, v, count, lBegin, lEnd, st) ==
    IF ~(st.i + 1 < count) THEN avgFinish(lBegin, lEnd, st)
    ELSE IF ~fge(lEnd, at(w, st.i))
         THEN avgFinish(lBegin, lEnd, [st EXCEPT !.wreads = @ \cup {st.i}])
    ELSE LET l0 == fmax(lBegin, at(w, st.i))
             l1 == fmin(lEnd, at(w, st.i + 1))
             area == fmul(fmul(<<1, 2>>,
                               fadd(interpolate(w, v, l0, st.i),
                                    interpolate(w, v, l1, st.i))),
                          fsub(l1, l0))
         IN  [st EXCEPT !.i = @ + 1,
                        !.result = fadd(@, area),
                        !.wreads = @ \cup {st.i, st.i + 1},
                        !.vreads = @ \cup {st.i, st.i + 1},
                        !.traps = Append(@, [seg |-> st.i, l0 |-> l0, l1 |-> l1])]

avgStep(w, v, count, lBegin, lEnd, st) ==
    IF st.pc = "skip" THEN skipStep(w, count, lBegin, st)
    ELSE IF st.pc = "integrate" THEN integrateStep(w, v, count, lBegin, lEnd, st)
    ELSE st

Running(st) == st.pc \in {"skip", "integrate"}

\* the loops run to their end from frame st
RECURSIVE avgRun(_, _, _, _, _, _)
avgRun(w, v, count, lBegin, lEnd, st) ==
    IF Running(st)
    THEN the({avgRun(w, v, count, lBegin, lEnd, next) :
                next \in {avgStep(w, v, count, lBegin, lEnd, st)}})
    ELSE st

\* the whole call: the frame it ends in
averageSamples(w, v, count, lBegin, lEnd, nd) ==
    the({avgRun(w, v, count, b, e, entered) :
           b \in {lBegin}, e \in {lEnd},
           entered \in {avgEnter(w, v, count, lBegin, lEnd, nd)}})

(***************************************************************************)
(* SampledSpectrum::fromSamples                                            *)
(***************************************************************************)
orderAssertNonStrict(w, count) ==
    \E i \in 0..(count - 2) : ~fle(at(w, i), at(w, i + 1))

\* lines 65-68: TRUE when an assert in the loop fails
orderAssertFails(w, count) ==
    \E i \in 0..(count - 2) : ~flt(at(w, i), at(w, i + 1))

binEdgeOffByOne(k) ==
    LET t == fdiv(R(k), R(SampleCount - 1))
    IN  fadd(fmul(R(WavelengthBegin), fsub(R(1), t)), fmul(R(WavelengthEnd), t))

\* lines 73-74 and 76-77 for the bin edge k / SampleCount
binEdge(k) ==
    LET t == fdiv(R(k), R(SampleCount))
    IN  fadd(fmul(R(WavelengthBegin), fsub(R(1), t)), fmul(R(WavelengthEnd), t))

NoResult == [outcome |-> "none", result |-> <<>>, calls |-> <<>>]

\* lines 72-80 for every bin: frames[i] is the frame bin i's call ends in
binFrames(w, v, count, nd) ==
    [i \in 0..(SampleCount - 1) |->
        averageSamples(w, v, count, binEdge(i), binEdge(i + 1), nd)]

\* the first bin whose call does not return; SampleCount when every call returns
firstStop(frames) ==
    IF \A i \in 0..(SampleCount - 1) : frames[i].pc = "done" THEN SampleCount
    ELSE CHOOSE i \in 0..(SampleCount - 1) :
             /\ frames[i].pc # "done"
             /\ \A j \in 0..(i - 1) : frames[j].pc = "done"

\* what the loop leaves when it stops at bin stop: the samples written, the calls made
loopOutcome(frames, stop) ==
    [outcome |-> IF stop = SampleCount THEN "returned" ELSE frames[stop].pc,
     result |-> [k \in 1..stop |-> frames[k - 1].result],
     calls |-> [k \in 1..(IF stop = SampleCount THEN SampleCount ELSE stop + 1) |->
                   [bin |-> k - 1, lBegin |-> binEdge(k - 1), lEnd |-> binEdge(k)]]]

\* lines 70-81: the loop runs the bins in increasing i and stops at the first call
\* that does not return
fromSamplesLoop(w, v, count, nd) ==
    the({the({loopOutcome(frames, stop) : stop \in {firstStop(frames)}}) :
           frames \in {binFrames(w, v, count, nd)}})

fromSamples(w, v, count, nd) ==
    IF ~nd /\ orderAssertFails(w, count) THEN [NoResult EXCEPT !.outcome = "assert"]
    ELSE fromSamplesLoop(w, v, count, nd)

(***************************************************************************)
(* inputs of the resampler                                                 *)
(***************************************************************************)
MaxCount == 3

Wavelengths == {400, 500, 600, 700}

Values == {0, 100}

Queries == {500, 550, 600, 750}

RatSeqs(S, n) == [1..n -> {R(x) : x \in S}]

Tables ==
    UNION {{[wavelengths |-> w, values |-> v, count |-> n] :
              w \in RatSeqs(Wavelengths, n), v \in RatSeqs(Values, n)} :
           n \in 0..MaxCount}

NoCall ==
    [fn |-> "none", wavelengths |-> <<>>, values |-> <<>>, count |-> 0,
     lBegin |-> R(0), lEnd |-> R(0)]

(***************************************************************************)
(* the resampler's calls                                                   *)
(***************************************************************************)
\* the caller's table, before it calls anything
Loaded(t) ==
    [NoCall EXCEPT !.wavelengths = t.wavelengths, !.values = t.values,
                   !.count = t.count]

CallAverageSamples ==
    /\ call.fn = "none"
    /\ \E lBegin \in Queries, lEnd \in Queries :
          /\ call' = [call EXCEPT !.fn = "averageSamples",
                                  !.lBegin = R(lBegin), !.lEnd = R(lEnd)]
          /\ avg' = avgEnter(call.wavelengths, call.values, call.count,
                             R(lBegin), R(lEnd), ndebug)
    /\ UNCHANGED <<ndebug, fs, colourVars>>

SkipLoop ==
    /\ avg.pc = "skip"
    /\ avg' = avgStep(call.wavelengths, call.values, call.count,
                      call.lBegin, call.lEnd, avg)
    /\ UNCHANGED <<ndebug, call, fs, colourVars>>

IntegrateLoop ==
    /\ avg.pc = "integrate"
    /\ avg' = avgStep(call.wavelengths, call.values, call.count,
                      call.lBegin, call.lEnd, avg)
    /\ UNCHANGED <<ndebug, call, fs, colourVars>>

CallFromSamples ==
    /\ call.fn = "none"
    /\ call' = [call EXCEPT !.fn = "fromSamples"]
    /\ fs' = fromSamples(call.wavelengths, call.values, call.count, ndebug)
    /\ UNCHANGED <<ndebug, avg, colourVars>>

ColourIdle ==
    /\ cie = [wavelengths |-> <<>>, x |-> <<>>, y |-> <<>>, z |-> <<>>, sampleCount |-> 0]
    /\ cache = <<>>
    /\ operand = <<>>
    /\ last = [op |-> "none", arg |-> 0, ret |-> <<>>]
    /\ made = 0

InitResample ==
    /\ ndebug \in BOOLEAN
    /\ call \in {Loaded(t) : t \in Tables}
    /\ avg = NoFrame
    /\ fs = NoResult
    /\ ColourIdle

NextResample ==
    \/ CallAverageSamples
    \/ SkipLoop
    \/ IntegrateLoop
    \/ CallFromSamples

SpecResample == InitResample /\ [][NextResample]_vars

(***************************************************************************)
(* the sample container                                                    *)
(***************************************************************************)
\* lines 17-20: the constructor fills every sample with val
SampledSpectrumBase(val) == [k \in 1..SampleCount |-> val]

\* line 22: operator[] used to write sample i
store(s, i, val) == [s EXCEPT ![i + 1] = val]

(***************************************************************************)
(* the CIE table (namespace CIE): its arrays are defined outside this      *)
(* header; the model's table has CIERows rows in place of the 471 of       *)
(* CIE::sampleCount, strictly increasing wavelengths that cover            *)
(* [WavelengthBegin, WavelengthEnd], and one of CIERows shapes of y        *)
(***************************************************************************)
CIERows == 3

CIETable(peak) ==
    [wavelengths |-> [k \in 1..CIERows |-> R(300 + 200 * (k - 1))],
     x |-> [k \in 1..CIERows |->
              IF k = CIERows THEN R(2) ELSE IF k = 1 THEN R(1) ELSE R(0)],
     y |-> [k \in 1..CIERows |-> IF k = peak THEN R(1) ELSE R(0)],
     z |-> [k \in 1..CIERows |-> IF k = 1 THEN R(2) ELSE R(0)],
     sampleCount |-> CIERows]

CIETables == {CIETable(peak) : peak \in {1, CIERows}}

(***************************************************************************)
(* the function-local statics of X, Y, Z and yIntegral                     *)
(***************************************************************************)
CacheNames == {"X", "Y", "Z", "yIntegral"}

NotInitialised == [initialised |-> FALSE, value |-> <<>>, runs |-> 0]

\* lines 148-153: result += CIE::y[i] for i = 0 .. n-1
sumY(y, n) ==
    LET partial[k \in 0..n] ==
            IF k = 0 THEN R(0) ELSE fadd(partial[k - 1], at(y, k - 1))
    IN  partial[n]

acquireIntegralSkipsLast(t) == sumY(t.y, t.sampleCount - 1)

acquireIntegral(t) == sumY(t.y, t.sampleCount)

\* the initialiser expression of each static (lines 130, 136, 142, 154)
initialiser(n, t, nd) ==
    IF n = "yIntegral" THEN acquireIntegral(t)
    ELSE fromSamples(t.wavelengths,
                     CASE n = "X" -> t.x [] n = "Y" -> t.y [] n = "Z" -> t.z,
                     t.sampleCount, nd).result

staticLocalRebuilt(c, n, t, nd) ==
    [c EXCEPT ![n] = [initialised |-> TRUE, value |-> initialiser(n, t, nd),
                      runs |-> @.runs + 1]]

\* a function-local static: its initialiser runs the first time control passes
\* through the declaration, and never again
staticLocal(c, n, t, nd) ==
    IF c[n].initialised THEN c
    ELSE [c EXCEPT ![n] = [initialised |-> TRUE, value |-> initialiser(n, t, nd),
                           runs |-> @.runs + 1]]

\* lines 128-132
X(c, t, nd) == staticLocal(c, "X", t, nd)

\* lines 134-138
Y(c, t, nd) == staticLocal(c, "Y", t, nd)

\* lines 140-144
Z(c, t, nd) == staticLocal(c, "Z", t, nd)

\* lines 146-156
yIntegral(c, t, nd) == staticLocal(c, "yIntegral", t, nd)

(***************************************************************************)
(* toXYZ and toRGB                                                         *)
(***************************************************************************)
\* lines 166-171 for one of x, y, z, from bin lo to bin hi:
\* acc += sM.samples[i] * samples[i], starting from acc = start
RECURSIVE accumulateFrom(_, _, _, _, _)
accumulateFrom(sM, samples, lo, hi, start) ==
    IF hi < lo THEN start
    ELSE fadd(accumulateFrom(sM, samples, lo, hi - 1, start),
              fmul(at(sM, hi), at(samples, hi)))

\* the whole loop, bins 0 .. SampleCount-1 in increasing order; the three
\* stretches only bound the depth of the evaluation
accumulate(sM, samples) ==
    LET third == SampleCount \div 3
    IN  the({accumulateFrom(sM, samples, 2 * third, SampleCount - 1, q) :
               q \in {accumulateFrom(sM, samples, third, 2 * third - 1, p) :
                        p \in {accumulateFrom(sM, samples, 0, third - 1, R(0))}}})

\* lines 166-173 once the three statics sX, sY, sZ and yIntegral() are at hand
project(samples, sX, sY, sZ, integral) ==
    LET scale == fdiv(fsub(R(WavelengthEnd), R(WavelengthBegin)),
                      fmul(R(SampleCount), integral))
    IN  <<fmul(accumulate(sX, samples), scale),
          fmul(accumulate(sY, samples), scale),
          fmul(accumulate(sZ, samples), scale)>>

\* lines 158-174; the statics are touched in the order X, Y, Z, yIntegral
toXYZ(samples, c, t, nd) ==
    the({[cache |-> c4,
          ret |-> project(samples, c4["X"].value, c4["Y"].value, c4["Z"].value,
                          c4["yIntegral"].value)] :
           c4 \in {yIntegral(c3, t, nd) :
                     c3 \in {Z(c2, t, nd) :
                               c2 \in {Y(c1, t, nd) : c1 \in {X(c, t, nd)}}}}})

\* a float literal with six decimal places
Lit(millionths) == Norm(millionths, 1000000)

matrixClamped(xyz) ==
    <<fmax(R(0), fsub(fsub(fmul(Lit(3240479), xyz[1]), fmul(Lit(1537150), xyz[2])),
                      fmul(Lit(498535), xyz[3]))),
      fmax(R(0), fadd(fadd(fmul(fneg(Lit(969256)), xyz[1]), fmul(Lit(1875991), xyz[2])),
                      fmul(Lit(41556), xyz[3]))),
      fmax(R(0), fadd(fsub(fmul(Lit(55648), xyz[1]), fmul(Lit(204043), xyz[2])),
                      fmul(Lit(1057311), xyz[3])))>>

\* lines 179-181: r, g and b from xyz.a, xyz.b, xyz.c
matrix(xyz) ==
    <<fsub(fsub(fmul(Lit(3240479), xyz[1]), fmul(Lit(1537150), xyz[2])),
           fmul(Lit(498535), xyz[3])),
      fadd(fadd(fmul(fneg(Lit(969256)), xyz[1]), fmul(Lit(1875991), xyz[2])),
           fmul(Lit(41556), xyz[3])),
      fadd(fsub(fmul(Lit(55648), xyz[1]), fmul(Lit(204043), xyz[2])),
           fmul(Lit(1057311), xyz[3]))>>

\* lines 176-183
toRGB(samples, c, t, nd) ==
    the({[cache |-> q.cache, ret |-> matrix(q.ret)] :
           q \in {toXYZ(samples, c, t, nd)}})

(***************************************************************************)
(* inputs of the converter: two spectra s1, s2 a caller built with the     *)
(* constructor and operator[], two scalars a, b, and a*s1 + b*s2           *)
(***************************************************************************)
Zero == SampledSpectrumBase(R(0))

Ends == store(store(Zero, 0, R(1)), SampleCount - 1, R(2))

Middle == store(store(Zero, 29, R(1)), 30, <<1, 2>>)

Combine(a, s1, b, s2) ==
    [k \in 1..SampleCount |-> fadd(fmul(a, s1[k]), fmul(b, s2[k]))]

Operands ==
    {[a |-> q[1], b |-> q[3],
      s |-> <<q[2], q[4], Combine(q[1], q[2], q[3], q[4])>>] :
        q \in {<<R(2), Ends, R(-3), Middle>>, <<R(-1), Middle, <<1, 2>>, Zero>>}}

(***************************************************************************)
(* the colour calls: a caller makes at most MaxCalls of them                *)
(***************************************************************************)
MaxCalls == 2

CallX ==
    /\ made < MaxCalls
    /\ made' = made + 1
    /\ cache' = X(cache, cie, ndebug)
    /\ last' = [op |-> "X", arg |-> 0, ret |-> cache'["X"].value]
    /\ UNCHANGED <<ndebug, call, avg, fs, cie, operand>>

CallY ==
    /\ made < MaxCalls
    /\ made' = made + 1
    /\ cache' = Y(cache, cie, ndebug)
    /\ last' = [op |-> "Y", arg |-> 0, ret |-> cache'["Y"].value]
    /\ UNCHANGED <<ndebug, call, avg, fs, cie, operand>>

CallZ ==
    /\ made < MaxCalls
    /\ made' = made + 1
    /\ cache' = Z(cache, cie, ndebug)
    /\ last' = [op |-> "Z", arg |-> 0, ret |-> cache'["Z"].value]
    /\ UNCHANGED <<ndebug, call, avg, fs, cie, operand>>

CallYIntegral ==
    /\ made < MaxCalls
    /\ made' = made + 1
    /\ cache' = yIntegral(cache, cie, ndebug)
    /\ last' = [op |-> "yIntegral", arg |-> 0, ret |-> cache'["yIntegral"].value]
    /\ UNCHANGED <<ndebug, call, avg, fs, cie, operand>>

CallToXYZ ==
    /\ made < MaxCalls
    /\ made' = made + 1
    /\ \E k \in 1..3 :
          \E r \in {toXYZ(operand.s[k], cache, cie, ndebug)} :
              /\ cache' = r.cache
              /\ last' = [op |-> "toXYZ", arg |-> k, ret |-> r.ret]
    /\ UNCHANGED <<ndebug, call, avg, fs, cie, operand>>

CallToRGB ==
    /\ made < MaxCalls
    /\ made' = made + 1
    /\ \E k \in 1..3 :
          \E r \in {toRGB(operand.s[k], cache, cie, ndebug)} :
              /\ cache' = r.cache
              /\ last' = [op |-> "toRGB", arg |-> k, ret |-> r.ret]
    /\ UNCHANGED <<ndebug, call, avg, fs, cie, operand>>

\* the build with assertions on, in which fromSamples checks the CIE table's order
InitColour ==
    /\ ndebug = FALSE
    /\ call = NoCall
    /\ avg = NoFrame
    /\ fs = NoResult
    /\ cie \in CIETables
    /\ cache = [n \in CacheNames |-> NotInitialised]
    /\ operand \in Operands
    /\ last = [op |-> "none", arg |-> 0, ret |-> <<>>]
    /\ made = 0

NextColour ==
    \/ CallX
    \/ CallY
    \/ CallZ
    \/ CallYIntegral
    \/ CallToXYZ
    \/ CallToRGB

SpecColour == InitColour /\ [][NextColour]_vars

(***************************************************************************)
(* what the claims about the resampler speak of                            *)
(***************************************************************************)
StrictlyIncreasing(w, count) ==
    \A i \in 0..(count - 2) : flt(at(w, i), at(w, i + 1))

AvgCalled == call.fn = "averageSamples"

FromCalled == call.fn = "fromSamples"

First == at(call.wavelengths, 0)

Last == at(call.wavelengths, call.count - 1)

\* the interpolant of segment j at l, as the specification writes it:
\* v[j] + (v[j+1] - v[j]) * (l - w[j]) / (w[j+1] - w[j])
Interpolant(w, v, j, l) ==
    fadd(at(v, j),
         fdiv(fmul(fsub(at(v, j + 1), at(v, j)), fsub(l, at(w, j))),
              fsub(at(w, j + 1), at(w, j))))

\* the integral of the interpolant over [a, b] cut to segment j: the width of the
\* cut times the interpolant at its midpoint
SegmentIntegral(w, v, j, a, b) ==
    LET lo == fmax(a, at(w, j))
        hi == fmin(b, at(w, j + 1))
    IN  IF flt(lo, hi)
        THEN fmul(fsub(hi, lo),
                  Interpolant(w, v, j, fmul(<<1, 2>>, fadd(lo, hi))))
        ELSE R(0)

RECURSIVE ClippedIntegral(_, _, _, _, _)
ClippedIntegral(w, v, j, a, b) ==
    IF j < 0 THEN R(0)
    ELSE fadd(ClippedIntegral(w, v, j - 1, a, b), SegmentIntegral(w, v, j, a, b))

InterpolatingCase ==
    /\ AvgCalled
    /\ avg.pc = "done"
    /\ call.count >= 2
    /\ StrictlyIncreasing(call.wavelengths, call.count)
    /\ flt(call.lBegin, call.lEnd)
    /\ fgt(call.lEnd, First)
    /\ flt(call.lBegin, Last)

\* C1: for count >= 2, strictly increasing wavelengths and lBegin < lEnd that
\* overlap the covered range, averageSamples returns the integral of the
\* piecewise-linear interpolant over the part of [lBegin, lEnd] inside
\* [wavelengths[0], wavelengths[count-1]], divided by lEnd - lBegin; the ramp
\* [500,600] -> [0,100] queried over [500,600) gives 50.
AverageIsClippedIntegral ==
    InterpolatingCase =>
        /\ avg.result =
              fdiv(ClippedIntegral(call.wavelengths, call.values, call.count - 2,
                                   call.lBegin, call.lEnd),
                   fsub(call.lEnd, call.lBegin))
        /\ (/\ call.wavelengths = <<R(500), R(600)>>
            /\ call.values = <<R(0), R(100)>>
            /\ call.lBegin = R(500)
            /\ call.lEnd = R(600)) => avg.result = R(50)

\* the interval reaches past the last sample, two segments were integrated
ClippedAverageReached ==
    /\ InterpolatingCase
    /\ call.count >= 3
    /\ fgt(call.lEnd, Last)
    /\ Len(avg.traps) >= 2
    /\ avg.result # R(0)
    /\ at(call.values, call.count - 1) # R(0)

\* C2: count == 1 returns values[0] for every interval; otherwise lEnd <=
\* wavelengths[0] returns values[0]; otherwise lBegin >= wavelengths[count-1]
\* returns values[count-1]; in all three no segment is interpolated.
BoundaryValueReturned ==
    AvgCalled =>
        /\ call.count = 1 =>
              /\ avg.pc = "done"
              /\ avg.result = at(call.values, 0)
              /\ avg.traps = <<>>
        /\ (call.count >= 2 /\ fle(call.lEnd, First)) =>
              /\ avg.pc = "done"
              /\ avg.result = at(call.values, 0)
              /\ avg.traps = <<>>
        /\ (call.count >= 2 /\ ~fle(call.lEnd, First) /\ fge(call.lBegin, Last)) =>
              /\ avg.pc = "done"
              /\ avg.result = at(call.values, call.count - 1)
              /\ avg.traps = <<>>

\* the right clamp returned a last value that differs from the first
RightClampReached ==
    /\ AvgCalled
    /\ call.count >= 2
    /\ ~fle(call.lEnd, First)
    /\ fge(call.lBegin, Last)
    /\ avg.pc = "done"
    /\ at(call.values, call.count - 1) # at(call.values, 0)

ConstantCoveringTable ==
    /\ FromCalled
    /\ call.count >= 1
    /\ StrictlyIncreasing(call.wavelengths, call.count)
    /\ \A i \in 0..(call.count - 1) : at(call.values, i) = at(call.values, 0)
    /\ fle(First, R(WavelengthBegin))
    /\ fge(Last, R(WavelengthEnd))

\* C3: resampling a table whose values all equal v and whose wavelengths cover
\* [WavelengthBegin, WavelengthEnd] gives a spectrum with every bin equal to v.
ConstantTableResamplesToConstant ==
    ConstantCoveringTable =>
        /\ fs.outcome = "returned"
        /\ Len(fs.result) = SampleCount
        /\ \A k \in 1..SampleCount : fs.result[k] = at(call.values, 0)

\* a three-point table of constant 100 over [400, 700] was resampled
ConstantTableResampled ==
    /\ ConstantCoveringTable
    /\ call.count = 3
    /\ at(call.values, 0) = R(100)
    /\ fs.outcome = "returned"

PreconditionViolated ==
    \/ call.count = 0
    \/ ~StrictlyIncreasing(call.wavelengths, call.count)
    \/ AvgCalled /\ ~flt(call.lBegin, call.lEnd)

\* C5 as the specification states it: with assertions enabled, every violated
\* precondition (wavelengths not strictly increasing, count == 0, lBegin >= lEnd)
\* ends the call in an assertion failure, not in a returned value.
EveryViolationAsserts ==
    (~ndebug /\ PreconditionViolated) =>
        /\ AvgCalled => avg.pc = "assert"
        /\ FromCalled => fs.outcome = "assert"

\* C5 as the code has it: with assertions enabled, fromSamples fails an assertion
\* exactly when count == 0 or the wavelengths are not strictly increasing, and
\* averageSamples fails one exactly when count == 0: it checks neither the order
\* of the wavelengths nor lBegin < lEnd, and with count >= 1 it returns a value.
AssertionsCheckCountAndOrderOnly ==
    ~ndebug =>
        /\ FromCalled =>
              /\ fs.outcome \in {"assert", "returned"}
              /\ fs.outcome = "assert" <=>
                    (call.count = 0
                       \/ ~StrictlyIncreasing(call.wavelengths, call.count))
        /\ AvgCalled =>
              /\ avg.pc \in {"assert", "skip", "integrate", "done"}
              /\ avg.pc = "assert" <=> call.count = 0

\* assertions are on, the wavelengths are out of order and lBegin >= lEnd, and
\* averageSamples went through its loops and returned
UncheckedViolationReturned ==
    /\ ~ndebug
    /\ AvgCalled
    /\ call.count >= 2
    /\ ~StrictlyIncreasing(call.wavelengths, call.count)
    /\ ~flt(call.lBegin, call.lEnd)
    /\ avg.pc = "done"
    /\ Len(avg.traps) >= 1

\* lerp(k / N) in closed form
Edge(k) ==
    Norm(WavelengthBegin * SampleCount + k * (WavelengthEnd - WavelengthBegin),
         SampleCount)

\* C9: a fromSamples call that returns has called averageSamples once per bin
\* i = 0..N-1, in increasing i, over [lerp(i/N), lerp((i+1)/N)), and stored that
\* call's result in result[i]; the intervals have equal width, start at
\* WavelengthBegin, end at WavelengthEnd and leave no gap and no overlap.
OneCallPerBin ==
    (FromCalled /\ fs.outcome = "returned") =>
        /\ Len(fs.calls) = SampleCount
        /\ Len(fs.result) = SampleCount
        /\ \A k \in 1..SampleCount :
              /\ fs.calls[k].bin = k - 1
              /\ fs.calls[k].lBegin = Edge(k - 1)
              /\ fs.calls[k].lEnd = Edge(k)
              /\ fsub(fs.calls[k].lEnd, fs.calls[k].lBegin)
                    = fsub(fs.calls[1].lEnd, fs.calls[1].lBegin)
              /\ fs.result[k] =
                    averageSamples(call.wavelengths, call.values, call.count,
                                   fs.calls[k].lBegin, fs.calls[k].lEnd,
                                   ndebug).result
        /\ fs.calls[1].lBegin = R(WavelengthBegin)
        /\ fs.calls[SampleCount].lEnd = R(WavelengthEnd)
        /\ \A k \in 1..(SampleCount - 1) : fs.calls[k].lEnd = fs.calls[k + 1].lBegin

\* a table with a ramp inside [400, 700] was resampled into bins that differ
RampResampled ==
    /\ FromCalled
    /\ fs.outcome = "returned"
    /\ call.count >= 2
    /\ StrictlyIncreasing(call.wavelengths, call.count)
    /\ \E j, k \in 1..SampleCount : fs.result[j] # fs.result[k]

ReadsInBounds ==
    (AvgCalled /\ call.count >= 2) =>
        /\ avg.pc \in {"skip", "integrate", "done"}
        /\ avg.wreads \subseteq 0..(call.count - 1)
        /\ avg.vreads \subseteq 0..(call.count - 1)
        /\ avg.pc = "skip" => avg.i + 1 <= call.count - 1
        /\ avg.pc = "integrate" => avg.i <= call.count - 1

TrapezoidsForward ==
    (/\ AvgCalled
     /\ call.count >= 2
     /\ StrictlyIncreasing(call.wavelengths, call.count)
     /\ flt(call.lBegin, call.lEnd)) =>
        /\ \A k \in 1..Len(avg.traps) : fle(avg.traps[k].l0, avg.traps[k].l1)
        /\ \A k \in 1..(Len(avg.traps) - 1) : avg.traps[k].seg < avg.traps[k + 1].seg

\* a step of either loop moves the cursor up by one or leaves the loop
LoopAdvances ==
    (AvgCalled /\ call.count >= 2 /\ Running(avg)) =>
        \/ avg'.pc = avg.pc /\ avg'.i = avg.i + 1
        \/ avg.pc = "skip" /\ avg'.pc = "integrate" /\ avg'.i = avg.i
        \/ avg'.pc = "done"

\* C10: with count >= 2, whatever lBegin, lEnd and the order of the wavelengths,
\* every read of wavelengths[] and values[] is at an index in [0, count-1] and
\* both loops end: inside a loop the cursor stays within [0, count-1], every
\* step moves it up by one or leaves the loop (a loop's step has no other
\* guard than being in the loop), so each loop takes at most count steps; with
\* strictly increasing wavelengths and lBegin < lEnd every trapezoid has
\* l0 <= l1 and the segments are visited at most once, in increasing order.
LoopsStayInBoundsAndEnd ==
    /\ []ReadsInBounds
    /\ []TrapezoidsForward
    /\ [][LoopAdvances]_vars

\* the wavelengths are out of order, lBegin >= lEnd, the skip loop advanced and
\* the integration loop added a trapezoid before the call returned
DisorderedCallReturned ==
    /\ AvgCalled
    /\ call.count >= 3
    /\ ~StrictlyIncreasing(call.wavelengths, call.count)
    /\ avg.pc = "done"
    /\ Len(avg.traps) >= 1
    /\ avg.traps[1].seg >= 1

(***************************************************************************)
(* what the claims about the colour calls speak of                         *)
(***************************************************************************)
AccessorCalled == last.op \in CacheNames

\* every static's initialiser has run at most once, exactly when it is initialised,
\* and an accessor returns the cached value
CacheOnce ==
    /\ \A n \in CacheNames :
          /\ cache[n].runs <= 1
          /\ cache[n].initialised <=> cache[n].runs = 1
    /\ AccessorCalled =>
          /\ cache[last.op].initialised
          /\ last.ret = cache[last.op].value
    /\ last.op \in {"toXYZ", "toRGB"} => \A n \in CacheNames : cache[n].initialised

\* a step never touches a static that is initialised
CacheKept == \A n \in CacheNames : cache[n].initialised => cache'[n] = cache[n]

\* a call of an accessor changes its own static at most, and nothing else of the
\* program's state
OwnCacheOnly ==
    made' # made /\ last'.op \in CacheNames =>
        /\ \A n \in CacheNames \ {last'.op} : cache'[n] = cache[n]
        /\ UNCHANGED <<ndebug, call, avg, fs, cie, operand>>

\* C4: over any sequence of calls of X(), Y(), Z(), yIntegral(), toXYZ() and toRGB(),
\* each of the four cached values is computed at most once, on its first use; every
\* later access returns that same value without rebuilding it; and computing one of
\* them changes no state other than its own cache
CachedValuesBuiltOnce ==
    []CacheOnce /\ [][CacheKept /\ OwnCacheOnly]_vars

\* X() is called again after toXYZ() or toRGB() initialised all four statics
CachedValueReturnedAgain ==
    /\ made = 2
    /\ last.op = "X"
    /\ \A n \in CacheNames : cache[n].initialised /\ cache[n].runs = 1

\* C6: toRGB is linear in the spectrum: toRGB of the bin-wise combination a*s1 + b*s2
\* equals a*toRGB(s1) + b*toRGB(s2), component by component
ToRGBLinear ==
    last.op = "toRGB" /\ last.arg = 3 =>
        LET r1 == toRGB(operand.s[1], cache, cie, ndebug).ret
            r2 == toRGB(operand.s[2], cache, cie, ndebug).ret
        IN  \A j \in 1..3 :
               last.ret[j] = fadd(fmul(operand.a, r1[j]), fmul(operand.b, r2[j]))

\* toRGB was applied to a*s1 + b*s2 and returned finite components, one of them
\* negative
NegativeComponentReturned ==
    /\ last.op = "toRGB"
    /\ last.arg = 3
    /\ \A j \in 1..3 : IsFinite(last.ret[j])
    /\ \E j \in 1..3 : flt(last.ret[j], R(0))

\* the sum of m[i] * s[i] over the bins lo .. hi, split in halves
RECURSIVE DotProduct(_, _, _, _)
DotProduct(m, s, lo, hi) ==
    IF lo = hi THEN fmul(at(m, lo), at(s, lo))
    ELSE LET mid == (lo + hi) \div 2
         IN  fadd(DotProduct(m, s, lo, mid), DotProduct(m, s, mid + 1, hi))

\* the sum of the rows lo .. hi of a column of the table, split in halves
RECURSIVE PlainSum(_, _, _)
PlainSum(y, lo, hi) ==
    IF lo = hi THEN at(y, lo)
    ELSE LET mid == (lo + hi) \div 2
         IN  fadd(PlainSum(y, lo, mid), PlainSum(y, mid + 1, hi))

\* C7: toXYZ returns, for each of X, Y, Z, the sum over the N bins of spectrum[i] times
\* the colour-matching singleton's bin i, multiplied by
\* (WavelengthEnd - WavelengthBegin) / (N * yIntegral), where yIntegral is the plain
\* sum of the table's y column; toXYZ of the all-zero spectrum is (0, 0, 0)
ToXYZIsScaledDotProduct ==
    last.op = "toXYZ" =>
        LET s == operand.s[last.arg]
            ySum == PlainSum(cie.y, 0, cie.sampleCount - 1)
            scale == fdiv(R(WavelengthEnd - WavelengthBegin),
                          fmul(R(SampleCount), ySum))
            component(n) ==
                fmul(DotProduct(cache[n].value, s, 0, SampleCount - 1), scale)
        IN  /\ cache["yIntegral"].value = ySum
            /\ last.ret = <<component("X"), component("Y"), component("Z")>>
            /\ s = Zero => last.ret = <<R(0), R(0), R(0)>>

\* toXYZ was applied to a spectrum and returned three finite components, Y not zero
NonZeroTristimulusReturned ==
    /\ last.op = "toXYZ"
    /\ \A j \in 1..3 : IsFinite(last.ret[j])
    /\ last.ret[2] # R(0)

====
